---- MODULE Spec2Model ----
(***************************************************************************)
(* Model of collaboration-docs.                                            *)
(*                                                                         *)
(* The server (server.js, second revision in src/unnamed/part_001, lines   *)
(* 362-823): the document records and grants of the SQLite database, one   *)
(* git repository per document (working file, index, commit objects,       *)
(* HEAD), the gitLocks map, and the HTTP handlers create / share / save /  *)
(* rollback / delete / content / history, each split at its awaits.  Node  *)
(* runs the handlers on one event loop: the code between two awaits is one *)
(* atomic step, and steps of different requests interleave freely.         *)
(* Statements reach SQLite through db.query (src/db.js).                   *)
(*                                                                         *)
(* The browser session (src/src/main.js): the screen shown, the editor and *)
(* provider of the open document, and the debounced autosave.              *)
(*                                                                         *)
(* Spec has the handlers that write commits under concurrent requests on   *)
(* the first document, SpecSerial every handler under requests sent one at *)
(* a time, SpecLife every handler under concurrent requests on a document  *)
(* that is not shared, SpecDocs the writing handlers under concurrent      *)
(* requests on several documents, SpecSound the handlers of Spec in runs    *)
(* without a failed call, SpecClient one browser session, SpecDebounce a   *)
(* function wrapped by debounce under calls and the passing of time.       *)
(***************************************************************************)
EXTENDS Integers, Sequences, FiniteSets, TLC

\* ---------------------------------------------------------------- bounds
MaxDocs    == 2   \* documents that can be created (AUTOINCREMENT ids 1..MaxDocs)
MaxReqs    == 2   \* HTTP requests in flight at the same time
MaxCommits == 4   \* commits per repository
WaitTicks  == 2   \* clock ticks in the debounce wait of the autosave (60000 ms)
MaxCalls   == 3   \* calls of a debounced function between two invocations
MaxInvoked == 2   \* invocations of the wrapped function that are followed

\* ------------------------------------------------------------ value sets
DocIds   == 1..MaxDocs
Reqs     == 1..MaxReqs
Users    == {"U1", "U2"}
Creators == {"U1"}               \* the users who create documents
Grantees == {"U2"}               \* the users documents are shared with
First    == {1}                  \* the id of the first document created
Contents == {"", "Hello"}
Names    == {"", "Doc"}          \* document names a create request can carry
Texts    == Contents \cup {"Hello World"}   \* contents of the serial saves
NoFile   == "<absent>"           \* the path does not exist / is not staged
NoUser   == "<nobody>"
Null     == "<null>"             \* SQL NULL
Grants   == {"owner", "writer", "reader"}   \* CHECK (role IN (...))
Args     == {"a", "b"}           \* arguments of a call of a debounced function
NoArgs   == "<none>"             \* no timer is armed
BadHash  == 0                    \* a hash that names no commit of the repository

VARIABLES
  nextId,    \* documents.id AUTOINCREMENT counter
  owner,     \* documents table: owner[d] = owner_id, NoUser when there is no row
  docName,   \* documents table: docName[d] = name, "" when there is no row
  perms,     \* permissions table: perms[d][u] = role, "none" when there is no row
  repo,      \* doc_<id> directory: "absent", "dir" (mkdir done), "git" (git init done)
  file,      \* working copy of document.md
  index,     \* staged blob of document.md
  objects,   \* objects[d][h] = commit h of document d: [parent, content]
  head,      \* HEAD of the repository, 0 before the first commit
  gitLocks,  \* the gitLocks Map: gitLocks[d] = TRUE when an entry is set
  req,       \* the requests in flight, one record per slot
  screen,    \* the screen a browser session shows: "auth", "dashboard", "editor"
  opening,   \* openDocument of the session: "no", "fetch" (awaiting the content),
             \* "editor" (provider made, editor creation scheduled)
  provider,  \* state.provider: "none", "connected", "destroyed"
  editor,    \* state.editor: "none", "live", "destroyed"
  isReadOnly,\* the editor was made for a reader
  timeout,   \* debounce: ticks until the armed timer runs the autosave, 0 unarmed
  dirty,     \* the editor holds an update for which the autosave has not run
  age,       \* ticks since the oldest such edit
  autosave,  \* the last autosave request: "idle", "sent", "failed"
  currentDocRole, \* state.currentDocRole, "none" for null
  saveBtn,   \* the last click on save-btn: "idle", "sent", "denied" (alert shown)
  args,      \* debounce: the arguments the armed timer will pass on
  called,    \* the arguments of the calls since the last invocation, in order
  since,     \* ticks since the last call
  invoked    \* the invocations of the wrapped function, in order: the arguments
             \* passed and the number of calls since the invocation before

vars == <<nextId, owner, docName, perms, repo, file, index, objects, head, gitLocks,
          req, screen, opening, provider, editor, isReadOnly, timeout, dirty, age,
          autosave, currentDocRole, saveBtn, args, called, since, invoked>>

\* The state of a wrapped function and its callers next to `timeout`, of the
\* browser session (main.js), and of the server.
wrapped == <<args, called, since, invoked>>
ui     == <<screen, opening, provider, editor, isReadOnly, timeout, dirty, age,
           autosave, currentDocRole, saveBtn, wrapped>>
server == <<nextId, owner, docName, perms, repo, file, index, objects, head,
           gitLocks, req>>

disk == <<repo, file, index, objects, head>>
db   == <<nextId, owner, docName, perms>>

\* A free request slot.  kind, pc, doc, user, name, content, hash, cur, chg
\* role (share: the role asked for; content: the role answered), log
\* (history: the list answered) and caught (save, content: the role lookup
\* failed and its catch block ran) are the handler's position and locals.  The other fields record what the
\* request observed or did and are read by no handler: result (the response),
\* new (the commit it created, 0 for none), base (save: the HEAD content when
\* it took the lock), overl (save: the lock was held at its lock test), shadow
\* (save: another save reached the lock test while this one held the lock).
Idle ==
  [kind |-> "none", pc |-> "idle", doc |-> 0, user |-> NoUser, name |-> "",
   content |-> NoFile,
   hash |-> BadHash, cur |-> NoFile, chg |-> FALSE, result |-> "none",
   new |-> 0, base |-> NoFile, overl |-> FALSE, shadow |-> FALSE,
   role |-> "none", log |-> <<>>, caught |-> FALSE]

\* ------------------------------------------------------------- git model
\* Variant: the chain is listed from the root commit to the newest.
RECURSIVE LogOf_OldestFirst(_, _)
LogOf_OldestFirst(objs, h) ==
  IF h = 0 THEN <<>> ELSE LogOf_OldestFirst(objs, objs[h].parent) \o <<h>>

\* git log: the chain from a commit back to the root commit, newest first.
RECURSIVE LogOf(_, _)
LogOf(objs, h) ==
  IF h = 0 THEN <<>> ELSE <<h>> \o LogOf(objs, objs[h].parent)

Log(d) == LogOf(objects[d], head[d])

\* Content of document.md in the tree of HEAD (NoFile before the first commit).
HeadContent(d) == IF head[d] = 0 THEN NoFile ELSE objects[d][head[d]].content

\* git show <hash>:document.md succeeds only for a commit of this repository.
HashExists(d, h) == h \in DOMAIN objects[d]

\* simple-git StatusSummary for document.md: the file is listed in `modified`
\* when the index differs from HEAD (staged change to a tracked file) or the
\* working copy differs from the index, in `not_added` when it is untracked.
\* Variant: only unstaged changes are listed, a staged change is not.
StatusModified_Unstaged(d) ==
  index[d] # NoFile /\ file[d] # NoFile /\ file[d] # index[d]

StatusModified(d) ==
  \/ /\ index[d] # NoFile /\ HeadContent(d) # NoFile /\ index[d] # HeadContent(d)
  \/ /\ index[d] # NoFile /\ file[d] # NoFile /\ file[d] # index[d]

StatusNotAdded(d) == index[d] = NoFile /\ file[d] # NoFile

\* git commit: commits the index on top of HEAD; with nothing staged
\* git prints "nothing to commit" and simple-git resolves without a commit,
\* unless --allow-empty is given.
WouldCommit(d, allowEmpty) ==
  /\ index[d] # NoFile \/ head[d] # 0
  /\ allowEmpty \/ index[d] # HeadContent(d)

NewCommit(d) == [parent |-> head[d], content |-> index[d]]

\* Variant: the commit rewrites the HEAD commit in place (git commit --amend).
GitCommit_Amend(d, allowEmpty) ==
  IF WouldCommit(d, allowEmpty)
  THEN IF head[d] = 0
       THEN /\ objects' = [objects EXCEPT ![d] = Append(@, NewCommit(d))]
            /\ head' = [head EXCEPT ![d] = Len(objects[d]) + 1]
       ELSE /\ objects' = [objects EXCEPT ![d][head[d]].content = index[d]]
            /\ UNCHANGED head
  ELSE UNCHANGED <<objects, head>>

GitCommit(d, allowEmpty) ==
  IF WouldCommit(d, allowEmpty)
  THEN /\ objects' = [objects EXCEPT ![d] = Append(@, NewCommit(d))]
       /\ head' = [head EXCEPT ![d] = Len(objects[d]) + 1]
  ELSE UNCHANGED <<objects, head>>

\* --------------------------------------------------------- request slots
Free(r) == req[r].kind = "none"

\* A new request occupies the lowest free slot, once the slots of the
\* requests that have answered are free again.
Slot(r) ==
  /\ Free(r)
  /\ \A q \in Reqs : q < r => ~Free(q)
  /\ \A q \in Reqs : req[q].pc # "done"

InFlight(d) ==
  {r \in Reqs : req[r].doc = d /\ req[r].kind \in {"save", "rollback", "create"}
                /\ req[r].pc # "done"}

\* Requests are admitted while the repository can still take their commit.
Room(d) == Len(objects[d]) + Cardinality(InFlight(d)) < MaxCommits

Set(r, rec) == req' = [req EXCEPT ![r] = rec]

Init ==
  /\ nextId = 1
  /\ owner = [d \in DocIds |-> NoUser]
  /\ docName = [d \in DocIds |-> ""]
  /\ perms = [d \in DocIds |-> [u \in Users |-> "none"]]
  /\ repo = [d \in DocIds |-> "absent"]
  /\ file = [d \in DocIds |-> NoFile]
  /\ index = [d \in DocIds |-> NoFile]
  /\ objects = [d \in DocIds |-> <<>>]
  /\ head = [d \in DocIds |-> 0]
  /\ gitLocks = [d \in DocIds |-> FALSE]
  /\ req = [r \in Reqs |-> Idle]
  /\ screen = "auth"
  /\ opening = "no"
  /\ provider = "none"
  /\ editor = "none"
  /\ isReadOnly = FALSE
  /\ timeout = 0
  /\ dirty = FALSE
  /\ age = 0
  /\ autosave = "idle"
  /\ currentDocRole = "none"
  /\ saveBtn = "idle"
  /\ args = NoArgs
  /\ called = <<>>
  /\ since = 0
  /\ invoked = <<>>

\* -------------------------------------------------------------- roles
\* Variant: the grant row is consulted first, documents.owner_id only
\* without one.
GetUserDocumentRole_GrantFirst(u, d) ==
  IF owner[d] = NoUser THEN "none"
  ELSE IF perms[d][u] # "none" THEN perms[d][u]
  ELSE IF owner[d] = u THEN "owner"
  ELSE "none"

\* getUserDocumentRole: null (here "none") without a document row, "owner"
\* from documents.owner_id, otherwise the role of the grant row, otherwise
\* null.  Its two SELECTs are taken to succeed.
GetUserDocumentRole(u, d) ==
  IF owner[d] = NoUser THEN "none"
  ELSE IF owner[d] = u THEN "owner"
  ELSE perms[d][u]

\* Variant: a lookup that fails grants write access.
RoleOrNull_FailOpen(u, d, fails) ==
  IF fails THEN "writer" ELSE GetUserDocumentRole(u, d)

\* getUserDocumentRole with its catch block: when one of its SELECTs throws,
\* it logs the error and returns null.
RoleOrNull(u, d, fails) ==
  IF fails THEN "none" ELSE GetUserDocumentRole(u, d)

\* Variant: every grant, the reader's too, passes the test.
CanWrite_AnyGrant(role) == role # "none"

\* The save handler's permission test.
CanWrite(role) == role = "owner" \/ role = "writer"

\* Variant: the lock map is not consulted.
LockHeld_Never(d) == FALSE

\* Variant: one lock for all documents.
LockHeld_Any(d) == \E e \in DocIds : gitLocks[e]

\* The save handler's test of the lock map.
LockHeld(d) == gitLocks[d]

\* -------------------------------------------------------------- create
\* The create requests whose INSERT has not run yet.
Inserting == {q \in Reqs : req[q].kind = "create" /\ req[q].pc = "insert"}

\* Every pending INSERT can still be given an id of DocIds.
IdsLeft == nextId + Cardinality(Inserting) <= MaxDocs

\* No create request has been given an id or is waiting for its INSERT.
NoneYet == nextId = 1 /\ Inserting = {}

\* POST /api/documents { name, userId }: the handler does not look at name.
CreateRequest(r, u, n) ==
  /\ Slot(r)
  /\ Set(r, [Idle EXCEPT !.kind = "create", !.pc = "insert", !.user = u, !.name = n])
  /\ UNCHANGED <<db, disk, gitLocks>>
  /\ UNCHANGED ui

\* Any failure in the create handler ends in its catch: 500, nothing undone.
CreateCatch(r) ==
  /\ Set(r, [req[r] EXCEPT !.pc = "done", !.result = "error"])

\* documents.fs_path is UNIQUE NOT NULL and every create inserts the same
\* fs_path 'document.md': the INSERT violates the constraint while any row
\* is in the table.  A failed INSERT consumes no id.
FsPathTaken == \E d \in DocIds : owner[d] # NoUser

\* INSERT INTO documents ... RETURNING *, then initDocumentRepo's mkdirSync.
\* The constraint violation is answered by the catch block with its message.
CreateInsert(r) ==
  /\ req[r].kind = "create" /\ req[r].pc = "insert"
  /\ \/ /\ CreateCatch(r)
        /\ UNCHANGED <<db, disk, gitLocks>>
     \/ /\ FsPathTaken
        /\ Set(r, [req[r] EXCEPT !.pc = "done", !.result = "constraint"])
        /\ UNCHANGED <<db, disk, gitLocks>>
     \/ /\ ~FsPathTaken
        /\ nextId <= MaxDocs
        /\ nextId' = nextId + 1
        /\ owner' = [owner EXCEPT ![nextId] = req[r].user]
        /\ docName' = [docName EXCEPT ![nextId] = req[r].name]
        /\ repo' = [repo EXCEPT ![nextId] = "dir"]
        /\ Set(r, [req[r] EXCEPT !.pc = "init", !.doc = nextId])
        /\ UNCHANGED <<perms, file, index, objects, head, gitLocks>>
  /\ UNCHANGED ui

\* git init and the two addConfig calls, then fs.writeFileSync(fullPath, '').
CreateInit(r) ==
  /\ req[r].kind = "create" /\ req[r].pc = "init"
  /\ \/ /\ CreateCatch(r)
        /\ UNCHANGED <<db, disk, gitLocks>>
     \/ /\ repo[req[r].doc] = "dir"
        /\ repo' = [repo EXCEPT ![req[r].doc] = "git"]
        /\ file' = [file EXCEPT ![req[r].doc] = ""]
        /\ Set(r, [req[r] EXCEPT !.pc = "add"])
        /\ UNCHANGED <<db, index, objects, head, gitLocks>>
  /\ UNCHANGED ui

\* git add document.md
CreateAdd(r) ==
  /\ req[r].kind = "create" /\ req[r].pc = "add"
  /\ \/ /\ CreateCatch(r)
        /\ UNCHANGED <<db, disk, gitLocks>>
     \/ /\ repo[req[r].doc] = "git"
        /\ index' = [index EXCEPT ![req[r].doc] = file[req[r].doc]]
        /\ Set(r, [req[r] EXCEPT !.pc = "commit"])
        /\ UNCHANGED <<db, repo, file, objects, head, gitLocks>>
  /\ UNCHANGED ui

\* git commit "Create document <name>"
CreateCommit(r) ==
  /\ req[r].kind = "create" /\ req[r].pc = "commit"
  /\ \/ /\ CreateCatch(r)
        /\ UNCHANGED <<db, disk, gitLocks>>
     \/ /\ repo[req[r].doc] = "git"
        /\ GitCommit(req[r].doc, FALSE)
        /\ Set(r, [req[r] EXCEPT !.pc = "perm",
                     !.new = IF WouldCommit(req[r].doc, FALSE)
                             THEN Len(objects[req[r].doc]) + 1 ELSE 0])
        /\ UNCHANGED <<db, repo, file, index, gitLocks>>
  /\ UNCHANGED ui

\* INSERT INTO permissions (document_id, user_id, 'owner'): a plain insert,
\* which throws on any database error and on UNIQUE(document_id, user_id)
\* when a row is already there.
CreatePerm(r) ==
  /\ req[r].kind = "create" /\ req[r].pc = "perm"
  /\ \/ /\ CreateCatch(r)
        /\ UNCHANGED <<db, disk, gitLocks>>
     \/ /\ perms[req[r].doc][req[r].user] = "none"
        /\ perms' = [perms EXCEPT ![req[r].doc][req[r].user] = "owner"]
        /\ Set(r, [req[r] EXCEPT !.pc = "done", !.result = "ok"])
        /\ UNCHANGED <<nextId, owner, docName, disk, gitLocks>>
  /\ UNCHANGED ui

\* ------------------------------------------------------------ db.query
\* db.js query(text, params): text.replace(/\$\d+/g, '?') turns every $n
\* into an anonymous '?', and sqlite3 binds params[k] to the k-th '?' of the
\* statement; a '?' past the end of params stays unbound and reads as NULL.
\* ph lists the numbers of the statement's placeholders in text order; the
\* result is the value each placeholder receives.
QueryBind(ph, params) ==
  [k \in 1..Len(ph) |-> IF k <= Len(params) THEN params[k] ELSE Null]

\* --------------------------------------------------------------- share
\* The placeholders of the share handler's statement,
\*   INSERT INTO permissions (document_id, user_id, role) VALUES ($1, $2, $3)
\*   ON CONFLICT (document_id, user_id) DO UPDATE SET role = $3
UpsertSql == <<1, 2, 3, 3>>

\* The statement run with bound values b: without a row for (b[1], b[2]) it
\* inserts role b[3]; with one, it sets the row's role to b[4], which the
\* column's NOT NULL / CHECK constraint must admit.  The table does not
\* require the document row to exist (foreign keys are not enforced by the
\* connection).
UpsertFails(b) == perms[b[1]][b[2]] # "none" /\ b[4] \notin Grants

Upsert(b) ==
  perms' = [perms EXCEPT ![b[1]][b[2]] =
              IF @ = "none" THEN b[3] ELSE IF b[4] \in Grants THEN b[4] ELSE @]

\* POST /api/documents/:id/share { username, role }: the handler does not
\* check who sends it.  `user` is the user the name belongs to, NoUser for a
\* name nobody registered.
ShareRequest(r, d, u, role) ==
  /\ Slot(r)
  /\ Set(r, [Idle EXCEPT !.kind = "share", !.pc = "user", !.doc = d, !.user = u,
                         !.role = role])
  /\ UNCHANGED <<db, disk, gitLocks>>
  /\ UNCHANGED ui

\* Resumption after SELECT id FROM users: 404 'User not found' without a row.
ShareUser(r) ==
  /\ req[r].kind = "share" /\ req[r].pc = "user"
  /\ \/ Set(r, [req[r] EXCEPT !.pc = "done", !.result = "error"])
     \/ /\ req[r].user = NoUser
        /\ Set(r, [req[r] EXCEPT !.pc = "done", !.result = "notfound"])
     \/ /\ req[r].user # NoUser
        /\ Set(r, [req[r] EXCEPT !.pc = "name"])
  /\ UNCHANGED <<db, disk, gitLocks>>
  /\ UNCHANGED ui

\* Resumption after SELECT name FROM documents ('Unknown' without a row), and
\* the call of the INSERT.
ShareName(r) ==
  /\ req[r].kind = "share" /\ req[r].pc = "name"
  /\ \/ Set(r, [req[r] EXCEPT !.pc = "done", !.result = "error"])
     \/ Set(r, [req[r] EXCEPT !.pc = "upsert"])
  /\ UNCHANGED <<db, disk, gitLocks>>
  /\ UNCHANGED ui

\* The INSERT has run with params [id, targetUserId, role]: the failed
\* statement is answered 500 by the catch block, the successful one by
\* io.emit('document-shared') and { success: true }.
ShareUpsert(r) ==
  LET b == QueryBind(UpsertSql, <<req[r].doc, req[r].user, req[r].role>>) IN
  /\ req[r].kind = "share" /\ req[r].pc = "upsert"
  /\ \/ /\ Set(r, [req[r] EXCEPT !.pc = "done", !.result = "error"])
        /\ UNCHANGED perms
     \/ /\ UpsertFails(b)
        /\ Set(r, [req[r] EXCEPT !.pc = "done", !.result = "constraint"])
        /\ UNCHANGED perms
     \/ /\ ~UpsertFails(b)
        /\ Upsert(b)
        /\ Set(r, [req[r] EXCEPT !.pc = "done", !.result = "ok"])
  /\ UNCHANGED <<nextId, owner, docName, disk, gitLocks>>
  /\ UNCHANGED ui

\* A share request whose statement succeeds, taken as one step: the only
\* state the handler changes is the row the statement writes.
Share(d, u, role) ==
  LET b == QueryBind(UpsertSql, <<d, u, role>>) IN
  /\ ~UpsertFails(b)
  /\ Upsert(b)
  /\ UNCHANGED <<nextId, owner, docName, disk, gitLocks, req>>
  /\ UNCHANGED ui

\* ---------------------------------------------------------------- save
SaveRequest(r, d, u, c) ==
  /\ Slot(r)
  /\ Room(d)
  /\ Set(r, [Idle EXCEPT !.kind = "save", !.pc = "role", !.doc = d, !.user = u,
                         !.content = c])
  /\ UNCHANGED <<db, disk, gitLocks>>
  /\ UNCHANGED ui

\* The save requests that are past gitLocks.set and before their release.
Holders(d) ==
  {q \in Reqs : req[q].kind = "save" /\ req[q].doc = d
                /\ req[q].pc \in {"query", "status", "add", "commit"}}

\* gitLocks.delete(id)
Release(d) == gitLocks' = [gitLocks EXCEPT ![d] = FALSE]

\* Variant: the catch block answers 500 and leaves the lock entry in place.
SaveCatch_KeepLock(r) ==
  /\ UNCHANGED gitLocks
  /\ Set(r, [req[r] EXCEPT !.pc = "done", !.result = "error"])

\* The catch block of the save handler: release the lock, answer 500.
SaveCatch(r) ==
  /\ Release(req[r].doc)
  /\ Set(r, [req[r] EXCEPT !.pc = "done", !.result = "error"])

\* Resumption after getUserDocumentRole: the permission test, the lock test
\* and gitLocks.set run without a suspension point between them.
SaveCheck(r, fails) ==
  LET d    == req[r].doc
      role == RoleOrNull(req[r].user, d, fails)
  IN
  /\ req[r].kind = "save" /\ req[r].pc = "role"
  /\ IF ~CanWrite(role)
     THEN /\ Set(r, [req[r] EXCEPT !.pc = "done", !.result = "forbidden",
                                  !.caught = fails])
          /\ UNCHANGED gitLocks
     ELSE IF LockHeld(d)
     THEN /\ req' = [q \in Reqs |->
                       IF q = r
                       THEN [req[r] EXCEPT !.pc = "done", !.result = "queued",
                                           !.user = NoUser, !.overl = TRUE,
                                           !.caught = fails]
                       ELSE IF q \in Holders(d)
                       THEN [req[q] EXCEPT !.shadow = TRUE]
                       ELSE req[q]]
          /\ UNCHANGED gitLocks
     ELSE /\ gitLocks' = [gitLocks EXCEPT ![d] = TRUE]
          /\ req' = [q \in Reqs |->
                       IF q = r
                       THEN [req[r] EXCEPT !.pc = "query", !.user = NoUser,
                                           !.overl = gitLocks[d],
                                           !.base = HeadContent(d),
                                           !.caught = fails]
                       ELSE IF q \in Holders(d)
                       THEN [req[q] EXCEPT !.shadow = TRUE]
                       ELSE req[q]]
  /\ UNCHANGED <<db, disk>>
  /\ UNCHANGED ui

\* Resumption after SELECT fs_path: 404 when the row is missing, otherwise
\* fs.writeFileSync(fullPath, content) and the call of git.status.
SaveQuery(r) ==
  LET d == req[r].doc IN
  /\ req[r].kind = "save" /\ req[r].pc = "query"
  /\ \/ /\ SaveCatch(r)
        /\ UNCHANGED <<db, disk>>
     \/ /\ owner[d] = NoUser
        /\ Release(d)
        /\ Set(r, [req[r] EXCEPT !.pc = "done", !.result = "notfound"])
        /\ UNCHANGED <<db, disk>>
     \/ /\ owner[d] # NoUser /\ repo[d] = "absent"
        /\ SaveCatch(r)
        /\ UNCHANGED <<db, disk>>
     \/ /\ owner[d] # NoUser /\ repo[d] # "absent"
        /\ file' = [file EXCEPT ![d] = req[r].content]
        /\ Set(r, [req[r] EXCEPT !.pc = "status"])
        /\ UNCHANGED <<db, repo, index, objects, head, gitLocks>>
  /\ UNCHANGED ui

\* git.status, then the test of status.modified / status.not_added.
SaveStatus(r) ==
  LET d == req[r].doc IN
  /\ req[r].kind = "save" /\ req[r].pc = "status"
  /\ \/ /\ SaveCatch(r)
        /\ UNCHANGED <<db, disk>>
     \/ /\ repo[d] # "git"
        /\ SaveCatch(r)
        /\ UNCHANGED <<db, disk>>
     \/ /\ repo[d] = "git"
        /\ IF StatusModified(d) \/ StatusNotAdded(d)
           THEN /\ Set(r, [req[r] EXCEPT !.pc = "add"])
                /\ UNCHANGED gitLocks
           ELSE /\ Release(d)
                /\ Set(r, [req[r] EXCEPT !.pc = "done", !.result = "ok"])
        /\ UNCHANGED <<db, disk>>
  /\ UNCHANGED ui

\* git add document.md
SaveAdd(r) ==
  LET d == req[r].doc IN
  /\ req[r].kind = "save" /\ req[r].pc = "add"
  /\ \/ /\ SaveCatch(r)
        /\ UNCHANGED <<db, disk>>
     \/ /\ repo[d] = "git"
        /\ index' = [index EXCEPT ![d] = file[d]]
        /\ Set(r, [req[r] EXCEPT !.pc = "commit"])
        /\ UNCHANGED <<db, repo, file, objects, head, gitLocks>>
  /\ UNCHANGED ui

\* git commit "Update document", gitLocks.delete, { success: true }
SaveCommit(r) ==
  LET d == req[r].doc IN
  /\ req[r].kind = "save" /\ req[r].pc = "commit"
  /\ \/ /\ SaveCatch(r)
        /\ UNCHANGED <<db, disk>>
     \/ /\ repo[d] = "git"
        /\ GitCommit(d, FALSE)
        /\ Release(d)
        /\ Set(r, [req[r] EXCEPT !.pc = "done", !.result = "ok",
                     !.new = IF WouldCommit(d, FALSE) THEN Len(objects[d]) + 1 ELSE 0])
        /\ UNCHANGED <<db, repo, file, index>>
  /\ UNCHANGED ui

\* ------------------------------------------------------------ rollback
\* The request carries only the target hash: the handler reads no userId.
\* `user` is the user of the session that sent it; the handler never sees it.
RollbackRequest(r, d, u, h) ==
  /\ Slot(r)
  /\ Room(d)
  /\ h = BadHash \/ HashExists(d, h)
  /\ Set(r, [Idle EXCEPT !.kind = "rollback", !.pc = "query", !.doc = d,
                         !.hash = h, !.user = u])
  /\ UNCHANGED <<db, disk, gitLocks>>
  /\ UNCHANGED ui

\* The catch block of the rollback handler: answer 500.
RbCatch(r) ==
  /\ Set(r, [req[r] EXCEPT !.pc = "done", !.result = "error"])

\* Resumption after SELECT fs_path: 404 when the row is missing; otherwise
\* getDocumentGit (throws when the directory is missing) and git.log.
RbQuery(r) ==
  LET d == req[r].doc IN
  /\ req[r].kind = "rollback" /\ req[r].pc = "query"
  /\ \/ /\ RbCatch(r)
     \/ /\ owner[d] = NoUser
        /\ Set(r, [req[r] EXCEPT !.pc = "done", !.result = "notfound"])
     \/ /\ owner[d] # NoUser /\ repo[d] = "absent"
        /\ RbCatch(r)
     \/ /\ owner[d] # NoUser /\ repo[d] # "absent"
        /\ Set(r, [req[r] EXCEPT !.pc = "show"])
  /\ UNCHANGED <<db, disk, gitLocks>>
  /\ UNCHANGED ui

\* What the rollback writes: git show <hash>:document.md, and '' when git
\* show throws (unknown hash, or any failure of the command).
ShowContent(d, h, showFails) ==
  IF HashExists(d, h) /\ ~showFails THEN objects[d][h].content ELSE ""

\* git.log (throws without a repository or without commits), the inner
\* try/catch around git.show, the read of the current file and
\* fs.writeFileSync(fullPath, fileContent).
RbShow(r) ==
  LET d == req[r].doc IN
  /\ req[r].kind = "rollback" /\ req[r].pc = "show"
  /\ \/ /\ RbCatch(r)
        /\ UNCHANGED <<db, disk, gitLocks>>
     \/ /\ repo[d] # "git" \/ head[d] = 0
        /\ RbCatch(r)
        /\ UNCHANGED <<db, disk, gitLocks>>
     \/ /\ repo[d] = "git" /\ head[d] # 0
        /\ \E showFails \in BOOLEAN :
             /\ file' = [file EXCEPT ![d] = ShowContent(d, req[r].hash, showFails)]
             /\ Set(r, [req[r] EXCEPT !.pc = "add",
                          !.content = ShowContent(d, req[r].hash, showFails),
                          !.cur = IF file[d] # NoFile THEN file[d] ELSE ""])
        /\ UNCHANGED <<db, repo, index, objects, head, gitLocks>>
  /\ UNCHANGED ui

\* Variant: the rollback does not stage the file it wrote.
RbAdd_NoStage(r) ==
  /\ req[r].kind = "rollback" /\ req[r].pc = "add"
  /\ Set(r, [req[r] EXCEPT !.pc = "status"])
  /\ UNCHANGED <<db, disk, gitLocks>>
  /\ UNCHANGED ui

\* The second git.show (commit subject; its failure only changes the
\* message) and git add document.md.
RbAdd(r) ==
  LET d == req[r].doc IN
  /\ req[r].kind = "rollback" /\ req[r].pc = "add"
  /\ \/ /\ RbCatch(r)
        /\ UNCHANGED <<db, disk, gitLocks>>
     \/ /\ repo[d] = "git"
        /\ index' = [index EXCEPT ![d] = file[d]]
        /\ Set(r, [req[r] EXCEPT !.pc = "status"])
        /\ UNCHANGED <<db, repo, file, objects, head, gitLocks>>
  /\ UNCHANGED ui

\* hasChanges
HasChanges(d, currentContent, fileContent) ==
  StatusModified(d) \/ StatusNotAdded(d) \/ currentContent # fileContent

\* git.status and the computation of hasChanges.
RbStatus(r) ==
  LET d == req[r].doc IN
  /\ req[r].kind = "rollback" /\ req[r].pc = "status"
  /\ \/ /\ RbCatch(r)
     \/ /\ repo[d] = "git"
        /\ Set(r, [req[r] EXCEPT !.pc = "commit",
                     !.chg = HasChanges(d, req[r].cur, req[r].content)])
  /\ UNCHANGED <<db, disk, gitLocks>>
  /\ UNCHANGED ui

\* Variant: the rollback of the first revision of server.js,
\* git reset --hard <hash>, which moves HEAD back to the target commit.
RbCommit_HardReset(r) ==
  LET d == req[r].doc
      h == IF HashExists(d, req[r].hash) THEN req[r].hash ELSE head[d]
  IN
  /\ req[r].kind = "rollback" /\ req[r].pc = "commit"
  /\ head' = [head EXCEPT ![d] = h]
  /\ index' = [index EXCEPT ![d] = objects[d][h].content]
  /\ file' = [file EXCEPT ![d] = objects[d][h].content]
  /\ Set(r, [req[r] EXCEPT !.pc = "done", !.result = "ok"])
  /\ UNCHANGED <<db, repo, objects, gitLocks>>
  /\ UNCHANGED ui

\* git commit of the rollback: plain when hasChanges, --allow-empty otherwise.
RbCommit(r) ==
  LET d == req[r].doc IN
  /\ req[r].kind = "rollback" /\ req[r].pc = "commit"
  /\ \/ /\ RbCatch(r)
        /\ UNCHANGED <<db, disk, gitLocks>>
     \/ /\ repo[d] = "git"
        /\ GitCommit(d, ~req[r].chg)
        /\ Set(r, [req[r] EXCEPT !.pc = "done", !.result = "ok",
                     !.new = IF WouldCommit(d, ~req[r].chg)
                             THEN Len(objects[d]) + 1 ELSE 0])
        /\ UNCHANGED <<db, repo, file, index, gitLocks>>
  /\ UNCHANGED ui

\* -------------------------------------------------------------- delete
\* DELETE /api/documents/:id carries no user id.  `user` is the user of the
\* session that sent it; the handler never sees it.
DeleteRequest(r, d, u) ==
  /\ Slot(r)
  /\ Set(r, [Idle EXCEPT !.kind = "delete", !.pc = "query", !.doc = d, !.user = u])
  /\ UNCHANGED <<db, disk, gitLocks>>
  /\ UNCHANGED ui

\* The catch block of the delete handler: answer 500, nothing undone.
DeleteCatch(r) ==
  /\ Set(r, [req[r] EXCEPT !.pc = "done", !.result = "error"])

\* Variant: only document.md is removed, the .git directory stays.
RmDir_FileOnly(d) ==
  /\ file' = [file EXCEPT ![d] = NoFile]
  /\ UNCHANGED <<repo, index, objects, head>>

\* fs.rmSync(docPath, { recursive: true, force: true }): the working file and
\* the whole .git directory (index, objects, HEAD) are removed.
RmDir(d) ==
  /\ repo' = [repo EXCEPT ![d] = "absent"]
  /\ file' = [file EXCEPT ![d] = NoFile]
  /\ index' = [index EXCEPT ![d] = NoFile]
  /\ objects' = [objects EXCEPT ![d] = <<>>]
  /\ head' = [head EXCEPT ![d] = 0]

\* Resumption after SELECT fs_path: 404 when the row is missing; otherwise
\* existsSync / rmSync of the document directory and the call of DELETE.
DeleteQuery(r) ==
  LET d == req[r].doc IN
  /\ req[r].kind = "delete" /\ req[r].pc = "query"
  /\ \/ /\ DeleteCatch(r)
        /\ UNCHANGED disk
     \/ /\ owner[d] = NoUser
        /\ Set(r, [req[r] EXCEPT !.pc = "done", !.result = "notfound"])
        /\ UNCHANGED disk
     \/ /\ owner[d] # NoUser
        /\ IF repo[d] # "absent" THEN RmDir(d) ELSE UNCHANGED disk
        /\ Set(r, [req[r] EXCEPT !.pc = "row"])
  /\ UNCHANGED <<db, gitLocks>>
  /\ UNCHANGED ui

\* DELETE FROM documents WHERE id = $1, then { success: true }.  The
\* connection never turns foreign keys on, so ON DELETE CASCADE does not run
\* and the rows of permissions stay.
DeleteRow(r) ==
  LET d == req[r].doc IN
  /\ req[r].kind = "delete" /\ req[r].pc = "row"
  /\ \/ /\ DeleteCatch(r)
        /\ UNCHANGED db
     \/ /\ owner' = [owner EXCEPT ![d] = NoUser]
        /\ docName' = [docName EXCEPT ![d] = ""]
        /\ Set(r, [req[r] EXCEPT !.pc = "done", !.result = "ok"])
        /\ UNCHANGED <<nextId, perms>>
  /\ UNCHANGED <<disk, gitLocks>>
  /\ UNCHANGED ui

\* ------------------------------------------------------------- content
ContentRequest(r, d, u) ==
  /\ Slot(r)
  /\ Set(r, [Idle EXCEPT !.kind = "content", !.pc = "query", !.doc = d, !.user = u])
  /\ UNCHANGED <<db, disk, gitLocks>>
  /\ UNCHANGED ui

\* The client's rollback click handler: when the rollback has answered
\* success it fetches the content and installs the answer in the editor
\* (editor.commands.setContent), from where it reaches every session of the
\* document.  `hash` keeps the target of the rollback this fetch follows.
RollbackRefetch(r) ==
  /\ req[r].kind = "rollback" /\ req[r].pc = "done" /\ req[r].result = "ok"
  /\ Set(r, [Idle EXCEPT !.kind = "content", !.pc = "query", !.doc = req[r].doc,
                         !.user = req[r].user, !.hash = req[r].hash])
  /\ UNCHANGED <<db, disk, gitLocks>>
  /\ UNCHANGED ui

\* Resumption after SELECT fs_path: 404 when the row is missing, otherwise
\* the call of getUserDocumentRole.
ContentQuery(r) ==
  LET d == req[r].doc IN
  /\ req[r].kind = "content" /\ req[r].pc = "query"
  /\ \/ Set(r, [req[r] EXCEPT !.pc = "done", !.result = "error"])
     \/ /\ owner[d] = NoUser
        /\ Set(r, [req[r] EXCEPT !.pc = "done", !.result = "notfound"])
     \/ /\ owner[d] # NoUser
        /\ Set(r, [req[r] EXCEPT !.pc = "role"])
  /\ UNCHANGED <<db, disk, gitLocks>>
  /\ UNCHANGED ui

\* Resumption after getUserDocumentRole (`fails`: its lookup failed):
\* content is the file when it exists and '' otherwise; { content, role }.
ContentRead(r, fails) ==
  LET d == req[r].doc IN
  /\ req[r].kind = "content" /\ req[r].pc = "role"
  /\ \/ Set(r, [req[r] EXCEPT !.pc = "done", !.result = "error"])
     \/ Set(r, [req[r] EXCEPT !.pc = "done", !.result = "ok",
                  !.content = IF file[d] # NoFile THEN file[d] ELSE "",
                  !.role = RoleOrNull(req[r].user, d, fails),
                  !.caught = fails])
  /\ UNCHANGED <<db, disk, gitLocks>>
  /\ UNCHANGED ui

\* ------------------------------------------------------------- history
HistoryRequest(r, d) ==
  /\ Slot(r)
  /\ Set(r, [Idle EXCEPT !.kind = "history", !.pc = "query", !.doc = d])
  /\ UNCHANGED <<db, disk, gitLocks>>
  /\ UNCHANGED ui

\* Resumption after SELECT fs_path: 404 when the row is missing; otherwise
\* getDocumentGit (throws when the directory is missing) and git.log.
HistoryQuery(r) ==
  LET d == req[r].doc IN
  /\ req[r].kind = "history" /\ req[r].pc = "query"
  /\ \/ Set(r, [req[r] EXCEPT !.pc = "done", !.result = "error"])
     \/ /\ owner[d] = NoUser
        /\ Set(r, [req[r] EXCEPT !.pc = "done", !.result = "notfound"])
     \/ /\ owner[d] # NoUser /\ repo[d] = "absent"
        /\ Set(r, [req[r] EXCEPT !.pc = "done", !.result = "error"])
     \/ /\ owner[d] # NoUser /\ repo[d] # "absent"
        /\ Set(r, [req[r] EXCEPT !.pc = "log"])
  /\ UNCHANGED <<db, disk, gitLocks>>
  /\ UNCHANGED ui

\* git.log (throws without a repository or without commits), then log.all,
\* the chain of HEAD; `hash` is its newest entry.
HistoryLog(r) ==
  LET d == req[r].doc IN
  /\ req[r].kind = "history" /\ req[r].pc = "log"
  /\ \/ Set(r, [req[r] EXCEPT !.pc = "done", !.result = "error"])
     \/ /\ repo[d] = "git" /\ head[d] # 0
        /\ Set(r, [req[r] EXCEPT !.pc = "done", !.result = "ok", !.hash = head[d],
                     !.log = Log(d)])
  /\ UNCHANGED <<db, disk, gitLocks>>
  /\ UNCHANGED ui

\* ------------------------------------------------------------ response
\* The response has been sent; the slot is free for the next request.
Respond(r) ==
  /\ req[r].pc = "done"
  /\ Set(r, Idle)
  /\ UNCHANGED <<db, disk, gitLocks>>
  /\ UNCHANGED ui

Next ==
  \/ \E r \in Reqs, u \in Creators : NoneYet /\ CreateRequest(r, u, "Doc")
  \/ \E r \in Reqs : CreateInsert(r)
  \/ \E r \in Reqs : CreateInit(r)
  \/ \E r \in Reqs : CreateAdd(r)
  \/ \E r \in Reqs : CreateCommit(r)
  \/ \E r \in Reqs : CreatePerm(r)
  \/ \E d \in First, u \in Grantees, role \in {"writer", "reader"} : Share(d, u, role)
  \/ \E r \in Reqs, d \in First, u \in Users, c \in Contents : SaveRequest(r, d, u, c)
  \/ \E r \in Reqs : SaveCheck(r, FALSE)
  \/ \E r \in Reqs : SaveQuery(r)
  \/ \E r \in Reqs : SaveStatus(r)
  \/ \E r \in Reqs : SaveAdd(r)
  \/ \E r \in Reqs : SaveCommit(r)
  \/ \E r \in Reqs, d \in First, u \in Grantees, h \in 0..MaxCommits :
       RollbackRequest(r, d, u, h)
  \/ \E r \in Reqs : RbQuery(r)
  \/ \E r \in Reqs : RbShow(r)
  \/ \E r \in Reqs : RbAdd(r)
  \/ \E r \in Reqs : RbStatus(r)
  \/ \E r \in Reqs : RbCommit(r)
  \/ \E r \in Reqs : Respond(r)

Spec == Init /\ [][Next]_vars

\* -------------------------------------------------------- no failures
\* The step does not answer 500: no statement, file operation or git
\* command of the handler has failed.
NoFault == \A q \in Reqs : req'[q].result # "error"

\* The requests of Spec in the runs where nothing fails.
NextSound ==
  \/ \E r \in Reqs, u \in Creators : NoneYet /\ CreateRequest(r, u, "Doc")
       /\ NoFault
  \/ \E r \in Reqs : CreateInsert(r) /\ NoFault
  \/ \E r \in Reqs : CreateInit(r) /\ NoFault
  \/ \E r \in Reqs : CreateAdd(r) /\ NoFault
  \/ \E r \in Reqs : CreateCommit(r) /\ NoFault
  \/ \E r \in Reqs : CreatePerm(r) /\ NoFault
  \/ \E d \in First, u \in Grantees, role \in {"writer", "reader"} : Share(d, u, role)
       /\ NoFault
  \/ \E r \in Reqs, d \in First, u \in Users, c \in Contents : SaveRequest(r, d, u, c)
       /\ NoFault
  \/ \E r \in Reqs : SaveCheck(r, FALSE) /\ NoFault
  \/ \E r \in Reqs : SaveQuery(r) /\ NoFault
  \/ \E r \in Reqs : SaveStatus(r) /\ NoFault
  \/ \E r \in Reqs : SaveAdd(r) /\ NoFault
  \/ \E r \in Reqs : SaveCommit(r) /\ NoFault
  \/ \E r \in Reqs, d \in First, u \in Grantees, h \in 0..MaxCommits :
       RollbackRequest(r, d, u, h)
       /\ NoFault
  \/ \E r \in Reqs : RbQuery(r) /\ NoFault
  \/ \E r \in Reqs : RbShow(r) /\ NoFault
  \/ \E r \in Reqs : RbAdd(r) /\ NoFault
  \/ \E r \in Reqs : RbStatus(r) /\ NoFault
  \/ \E r \in Reqs : RbCommit(r) /\ NoFault
  \/ \E r \in Reqs : Respond(r) /\ NoFault

SpecSound == Init /\ [][NextSound]_vars

\* ---------------------------------------------------- serial requests
\* No request is in flight.
Quiet == \A q \in Reqs : Free(q)

\* The INSERT of a create sent now either gets the first id or fails.
CanCreate == nextId \in First \/ FsPathTaken

\* The server under clients that send one request at a time, each after the
\* answer to the one before: every handler, no two of them interleaved.
NextSerial ==
  \/ \E r \in Reqs, u \in Creators, n \in Names :
       Quiet /\ CanCreate /\ CreateRequest(r, u, n)
  \/ \E r \in Reqs : CreateInsert(r)
  \/ \E r \in Reqs : CreateInit(r)
  \/ \E r \in Reqs : CreateAdd(r)
  \/ \E r \in Reqs : CreateCommit(r)
  \/ \E r \in Reqs : CreatePerm(r)
  \/ \E r \in Reqs, d \in First, u \in Users \cup {NoUser}, role \in {"writer", "reader"} :
       Quiet /\ ShareRequest(r, d, u, role)
  \/ \E r \in Reqs : ShareUser(r)
  \/ \E r \in Reqs : ShareName(r)
  \/ \E r \in Reqs : ShareUpsert(r)
  \/ \E r \in Reqs, d \in First, u \in Users, c \in Texts :
       Quiet /\ SaveRequest(r, d, u, c)
  \/ \E r \in Reqs, fails \in BOOLEAN : SaveCheck(r, fails)
  \/ \E r \in Reqs : SaveQuery(r)
  \/ \E r \in Reqs : SaveStatus(r)
  \/ \E r \in Reqs : SaveAdd(r)
  \/ \E r \in Reqs : SaveCommit(r)
  \/ \E r \in Reqs, d \in First, u \in Grantees, h \in 0..MaxCommits :
       Quiet /\ RollbackRequest(r, d, u, h)
  \/ \E r \in Reqs : RbQuery(r)
  \/ \E r \in Reqs : RbShow(r)
  \/ \E r \in Reqs : RbAdd(r)
  \/ \E r \in Reqs : RbStatus(r)
  \/ \E r \in Reqs : RbCommit(r)
  \/ \E r \in Reqs, d \in First, u \in Users : Quiet /\ DeleteRequest(r, d, u)
  \/ \E r \in Reqs : DeleteQuery(r)
  \/ \E r \in Reqs : DeleteRow(r)
  \/ \E r \in Reqs, d \in First, u \in Users : Quiet /\ ContentRequest(r, d, u)
  \/ \E r \in Reqs : ContentQuery(r)
  \/ \E r \in Reqs, fails \in BOOLEAN : ContentRead(r, fails)
  \/ \E r \in Reqs, d \in First : Quiet /\ HistoryRequest(r, d)
  \/ \E r \in Reqs : HistoryQuery(r)
  \/ \E r \in Reqs : HistoryLog(r)
  \/ \E r \in Reqs : Respond(r)

SpecSerial == Init /\ [][NextSerial]_vars

\* ------------------------------------------------- document life cycle
\* The server under concurrent requests of every kind on a document that is
\* not shared: the owner's sessions save, roll back and read, any user's
\* session deletes, and a session whose rollback succeeded fetches the
\* content again.
NextLife ==
  \/ \E r \in Reqs, u \in Creators : NoneYet /\ CreateRequest(r, u, "Doc")
  \/ \E r \in Reqs : CreateInsert(r)
  \/ \E r \in Reqs : CreateInit(r)
  \/ \E r \in Reqs : CreateAdd(r)
  \/ \E r \in Reqs : CreateCommit(r)
  \/ \E r \in Reqs : CreatePerm(r)
  \/ \E r \in Reqs, d \in First, u \in Creators, c \in Contents :
       SaveRequest(r, d, u, c)
  \/ \E r \in Reqs : SaveCheck(r, FALSE)
  \/ \E r \in Reqs : SaveQuery(r)
  \/ \E r \in Reqs : SaveStatus(r)
  \/ \E r \in Reqs : SaveAdd(r)
  \/ \E r \in Reqs : SaveCommit(r)
  \/ \E r \in Reqs, d \in First, u \in Creators, h \in 0..MaxCommits :
       RollbackRequest(r, d, u, h)
  \/ \E r \in Reqs : RbQuery(r)
  \/ \E r \in Reqs : RbShow(r)
  \/ \E r \in Reqs : RbAdd(r)
  \/ \E r \in Reqs : RbStatus(r)
  \/ \E r \in Reqs : RbCommit(r)
  \/ \E r \in Reqs : RollbackRefetch(r)
  \/ \E r \in Reqs, d \in First, u \in Users : DeleteRequest(r, d, u)
  \/ \E r \in Reqs : DeleteQuery(r)
  \/ \E r \in Reqs : DeleteRow(r)
  \/ \E r \in Reqs, d \in First, u \in Creators : ContentRequest(r, d, u)
  \/ \E r \in Reqs : ContentQuery(r)
  \/ \E r \in Reqs : ContentRead(r, FALSE)
  \/ \E r \in Reqs, d \in First : HistoryRequest(r, d)
  \/ \E r \in Reqs : HistoryQuery(r)
  \/ \E r \in Reqs : HistoryLog(r)
  \/ \E r \in Reqs : Respond(r)

SpecLife == Init /\ [][NextLife]_vars

\* ---------------------------------------------------- several documents
\* The ids the database has given out.
Issued == {d \in DocIds : d < nextId}

\* The server under concurrent requests of the owner on every document that
\* was ever created: a document is created, saved, rolled back to its first
\* commit and deleted, and the next one is created while requests on the
\* deleted one are still in flight.
NextDocs ==
  \/ \E r \in Reqs, u \in Creators : IdsLeft /\ CreateRequest(r, u, "Doc")
  \/ \E r \in Reqs : CreateInsert(r)
  \/ \E r \in Reqs : CreateInit(r)
  \/ \E r \in Reqs : CreateAdd(r)
  \/ \E r \in Reqs : CreateCommit(r)
  \/ \E r \in Reqs : CreatePerm(r)
  \/ \E r \in Reqs, d \in Issued, u \in Creators : SaveRequest(r, d, u, "Hello")
  \/ \E r \in Reqs : SaveCheck(r, FALSE)
  \/ \E r \in Reqs : SaveQuery(r)
  \/ \E r \in Reqs : SaveStatus(r)
  \/ \E r \in Reqs : SaveAdd(r)
  \/ \E r \in Reqs : SaveCommit(r)
  \/ \E r \in Reqs, d \in Issued, u \in Creators : RollbackRequest(r, d, u, 1)
  \/ \E r \in Reqs : RbQuery(r)
  \/ \E r \in Reqs : RbShow(r)
  \/ \E r \in Reqs : RbAdd(r)
  \/ \E r \in Reqs : RbStatus(r)
  \/ \E r \in Reqs : RbCommit(r)
  \/ \E r \in Reqs, d \in Issued, u \in Creators : DeleteRequest(r, d, u)
  \/ \E r \in Reqs : DeleteQuery(r)
  \/ \E r \in Reqs : DeleteRow(r)
  \/ \E r \in Reqs : Respond(r)

SpecDocs == Init /\ [][NextDocs]_vars

\* ------------------------------------------------------ browser session
\* login-btn / register-btn: state.user is set and initDashboard shows the
\* dashboard.
Login ==
  /\ screen = "auth"
  /\ screen' = "dashboard"
  /\ UNCHANGED <<opening, provider, editor, isReadOnly, timeout, dirty, age, autosave>>
  /\ UNCHANGED <<currentDocRole, saveBtn>>
  /\ UNCHANGED <<server, wrapped>>

\* editor.destroy() / provider.destroy(), called when the field is set; the
\* field keeps the destroyed object.
Destroy(x) == IF x = "none" THEN "none" ELSE "destroyed"

\* logout-btn: state.user and state.currentDoc are cleared, the editor and
\* the provider are destroyed, the login screen is shown.
Logout ==
  /\ screen # "auth"
  /\ screen' = "auth"
  /\ editor' = Destroy(editor)
  /\ provider' = Destroy(provider)
  /\ UNCHANGED <<opening, isReadOnly, timeout, dirty, age, autosave>>
  /\ UNCHANGED <<currentDocRole, saveBtn>>
  /\ UNCHANGED <<server, wrapped>>

\* back-btn: initDashboard() and nothing else.
Back ==
  /\ screen = "editor"
  /\ screen' = "dashboard"
  /\ UNCHANGED <<opening, provider, editor, isReadOnly, timeout, dirty, age, autosave>>
  /\ UNCHANGED <<currentDocRole, saveBtn>>
  /\ UNCHANGED <<server, wrapped>>

\* openDocument up to its await: the editor screen is shown, the old editor
\* and provider are destroyed, the content is requested.  The timer and the
\* requests of the old editor are not followed further.
OpenDocument ==
  /\ screen = "dashboard"
  /\ screen' = "editor"
  /\ editor' = Destroy(editor)
  /\ provider' = Destroy(provider)
  /\ opening' = "fetch"
  /\ timeout' = 0 /\ dirty' = FALSE /\ age' = 0 /\ autosave' = "idle"
  /\ UNCHANGED isReadOnly
  /\ UNCHANGED <<currentDocRole, saveBtn>>
  /\ UNCHANGED <<server, wrapped>>

\* openDocument after the content request, answered with `role` (ok) or
\* failed (a failure is only logged; userRole stays null and
\* state.currentDocRole what it was): a new Y.Doc and a new SocketIOProvider,
\* which connects; the editor is scheduled with setTimeout(..., 100).
OpenProvider(role, ok) ==
  /\ opening = "fetch"
  /\ ok \/ role = "none"
  /\ provider' = "connected"
  /\ isReadOnly' = (role = "reader")
  /\ currentDocRole' = IF ok THEN role ELSE currentDocRole
  /\ UNCHANGED saveBtn
  /\ opening' = "editor"
  /\ UNCHANGED <<screen, editor, timeout, dirty, age, autosave>>
  /\ UNCHANGED <<server, wrapped>>

\* The scheduled callback: state.editor = new Editor(...).  For a user who
\* is not a reader it reads state.user.username first, which throws after a
\* logout.
OpenEditor ==
  /\ opening = "editor"
  /\ opening' = "no"
  /\ editor' = IF screen = "auth" /\ ~isReadOnly THEN editor ELSE "live"
  /\ UNCHANGED <<screen, provider, isReadOnly, timeout, dirty, age, autosave>>
  /\ UNCHANGED <<currentDocRole, saveBtn>>
  /\ UNCHANGED <<server, wrapped>>

\* The user types: onUpdate, i.e. the debounced function, is called.  It
\* clears the armed timer and arms a new one of the full wait.
Edit ==
  /\ screen = "editor" /\ editor = "live" /\ ~isReadOnly
  /\ timeout' = WaitTicks
  /\ dirty' = TRUE
  /\ age' = IF dirty THEN age ELSE 0
  /\ UNCHANGED <<screen, opening, provider, editor, isReadOnly, autosave>>
  /\ UNCHANGED <<currentDocRole, saveBtn>>
  /\ UNCHANGED <<server, wrapped>>

\* The provider's 'sync' handler finds the shared text empty and calls
\* state.editor.commands.setContent(initialContent): the editor, editable or
\* not, is updated and onUpdate is called.
Synced ==
  /\ opening = "no" /\ editor = "live" /\ provider = "connected"
  /\ timeout' = WaitTicks
  /\ dirty' = TRUE
  /\ age' = IF dirty THEN age ELSE 0
  /\ UNCHANGED <<screen, opening, provider, editor, isReadOnly, autosave>>
  /\ UNCHANGED <<currentDocRole, saveBtn>>
  /\ UNCHANGED <<server, wrapped>>

\* One tick of the clock.  The timer that runs out calls the autosave, which
\* returns at once in a reader's editor and otherwise sends the save request
\* with editor.getHTML().  Time is followed while a
\* timer is armed or an edit waits, and until an edit is older than the wait.
Tick ==
  /\ timeout > 0 \/ dirty
  /\ age <= WaitTicks
  /\ IF timeout = 1
     THEN /\ timeout' = 0 /\ dirty' = FALSE /\ age' = 0
          /\ autosave' = IF isReadOnly THEN autosave ELSE "sent"
     ELSE /\ timeout' = IF timeout > 0 THEN timeout - 1 ELSE 0
          /\ age' = IF dirty THEN age + 1 ELSE age
          /\ UNCHANGED <<dirty, autosave>>
  /\ UNCHANGED <<screen, opening, provider, editor, isReadOnly>>
  /\ UNCHANGED <<currentDocRole, saveBtn>>
  /\ UNCHANGED <<server, wrapped>>

\* The save request of the autosave is answered 200.
AutosaveDone ==
  /\ autosave = "sent"
  /\ autosave' = "idle"
  /\ UNCHANGED <<screen, opening, provider, editor, isReadOnly, timeout, dirty, age>>
  /\ UNCHANGED <<currentDocRole, saveBtn>>
  /\ UNCHANGED <<server, wrapped>>

\* api() throws (the answer is not ok, or the fetch fails): the catch block
\* writes console.error('Autosave failed:', err) and returns.
AutosaveFailed ==
  /\ autosave = "sent"
  /\ autosave' = "failed"
  /\ UNCHANGED <<screen, opening, provider, editor, isReadOnly, timeout, dirty, age>>
  /\ UNCHANGED <<currentDocRole, saveBtn>>
  /\ UNCHANGED <<server, wrapped>>

\* Variant: the handler does not look at the role.
SaveButton_AnyRole ==
  /\ screen = "editor" /\ editor # "none"
  /\ saveBtn' = "sent"
  /\ UNCHANGED <<screen, opening, provider, editor, isReadOnly, timeout, dirty,
                 age, autosave, currentDocRole>>
  /\ UNCHANGED <<server, wrapped>>

\* save-btn click, with an editor and a current document set: a session
\* whose state.currentDocRole is 'reader' gets an alert, any other sends the
\* save request with state.editor.getHTML().
SaveButton ==
  /\ screen = "editor" /\ editor # "none"
  /\ saveBtn' = IF currentDocRole = "reader" THEN "denied" ELSE "sent"
  /\ UNCHANGED <<screen, opening, provider, editor, isReadOnly, timeout, dirty,
                 age, autosave, currentDocRole>>
  /\ UNCHANGED <<server, wrapped>>

\* The save request of the button is answered, with success or not: an
\* alert either way.
SaveAnswered ==
  /\ saveBtn = "sent"
  /\ saveBtn' = "idle"
  /\ UNCHANGED <<screen, opening, provider, editor, isReadOnly, timeout, dirty,
                 age, autosave, currentDocRole>>
  /\ UNCHANGED <<server, wrapped>>

\* One browser session; the server is left out.
NextClient ==
  \/ Login
  \/ Logout
  \/ Back
  \/ OpenDocument
  \/ \E role \in Grants \cup {"none"}, ok \in BOOLEAN : OpenProvider(role, ok)
  \/ OpenEditor
  \/ Edit
  \/ Synced
  \/ SaveButton
  \/ SaveAnswered
  \/ Tick
  \/ AutosaveDone
  \/ AutosaveFailed

SpecClient == Init /\ [][NextClient]_vars

\* ------------------------------------------------------------- debounce
\* The rest of the model next to a wrapped function.
session == <<screen, opening, provider, editor, isReadOnly, dirty, age,
             autosave, currentDocRole, saveBtn>>

\* Variant: a call made while a timer is armed leaves that timer and its
\* arguments alone.
Call_KeepTimer(a) ==
  /\ Len(called) < MaxCalls /\ Len(invoked) < MaxInvoked
  /\ timeout' = IF timeout > 0 THEN timeout ELSE WaitTicks
  /\ args' = IF timeout > 0 THEN args ELSE a
  /\ called' = Append(called, a)
  /\ since' = 0
  /\ UNCHANGED invoked
  /\ UNCHANGED <<server, session>>

\* executedFunction(...args): clearTimeout(timeout), then
\* timeout = setTimeout(later, wait), where later holds the arguments of
\* this call.
Call(a) ==
  /\ Len(called) < MaxCalls /\ Len(invoked) < MaxInvoked
  /\ timeout' = WaitTicks
  /\ args' = a
  /\ called' = Append(called, a)
  /\ since' = 0
  /\ UNCHANGED invoked
  /\ UNCHANGED <<server, session>>

\* One tick of the clock while a timer is armed.  The timer that runs out
\* runs later: clearTimeout(timeout) and func(...args).
Elapse ==
  /\ timeout > 0
  /\ IF timeout = 1
     THEN /\ timeout' = 0
          /\ invoked' = Append(invoked, [args |-> args, burst |-> Len(called)])
          /\ args' = NoArgs
          /\ called' = <<>>
          /\ since' = 0
     ELSE /\ timeout' = timeout - 1
          /\ since' = since + 1
          /\ UNCHANGED <<args, called, invoked>>
  /\ UNCHANGED <<server, session>>

\* A function wrapped by debounce: calls with any arguments at any time.
NextDebounce ==
  \/ \E a \in Args : Call(a)
  \/ Elapse

SpecDebounce == Init /\ [][NextDebounce]_vars

\* ============================================================== claims
Saves     == {r \in Reqs : req[r].kind = "save"}
Rollbacks == {r \in Reqs : req[r].kind = "rollback"}
Done(r)   == req[r].pc = "done"
Exists(d) == owner[d] # NoUser

\* The create of document d has answered success: the row, the repository
\* with its empty initial commit and the owner's grant are all there.
Created(d) ==
  /\ Exists(d) /\ perms[d][owner[d]] = "owner"
  /\ head[d] # 0 /\ objects[d][1] = [parent |-> 0, content |-> ""]

\* Every document in the table was created completely and under a non-empty
\* name.
AllSound == \A d \in DocIds : Exists(d) => Created(d) /\ docName[d] # ""

\* The sender of rollback r holds a writer grant.
ByWriter(r) == perms[req[r].doc][req[r].user] = "writer"

\* Rollback r names a commit of its document and, once it has read it, holds
\* that commit's content.
GoodTarget(r) ==
  /\ HashExists(req[r].doc, req[r].hash)
  /\ req[r].content \in {NoFile, objects[req[r].doc][req[r].hash].content}

\* s is a suffix of t
IsSuffix(s, t) ==
  /\ Len(s) <= Len(t)
  /\ \A i \in 1..Len(s) : s[i] = t[Len(t) - Len(s) + i]

\* Slot r takes a step of its handler.
Steps(r) == req[r].pc # "idle" /\ req'[r].pc # req[r].pc

\* --- C1 ---------------------------------------------------------------
\* C1 as stated: when a save held the lock of a created document while
\* another permitted save reached the lock test, the two together create
\* exactly one commit if the first one's content differs from the content of
\* HEAD and none if it is equal (the coalesced one never creates any).
C1_SingleFlightExact ==
  \A r \in Saves :
    /\ req[r].overl => req[r].new = 0
    /\ (Done(r) /\ req[r].shadow /\ Created(req[r].doc) /\ req[r].base # NoFile)
         => (req[r].new # 0 <=> req[r].content # req[r].base)

\* C1 (amended): two overlapping saves of one document never create two
\* commits: the save that finds the lock held creates none, and the lock
\* holder is a single request, which commits at most once.
C1_SingleFlight ==
  /\ \A r \in Saves : req[r].overl => req[r].new = 0 /\ req[r].result = "queued"
  /\ \A d \in DocIds : Cardinality(Holders(d)) <= 1

\* A save that committed while a second one was coalesced against it.
C1_Witness ==
  \E r, q \in Saves :
    /\ r # q /\ req[r].doc = req[q].doc
    /\ Done(r) /\ req[r].shadow /\ req[r].result = "ok" /\ req[r].new # 0
    /\ Done(q) /\ req[q].overl /\ req[q].result = "queued"

\* --- C2 ---------------------------------------------------------------
\* The commit-producing requests of a document that have written the file
\* and not yet finished.
Writing(d) ==
  {r \in Reqs : /\ req[r].doc = d
                /\ \/ req[r].kind = "save" /\ req[r].pc \in {"status", "add", "commit"}
                   \/ req[r].kind = "rollback" /\ req[r].pc \in {"add", "status", "commit"}}

\* C2: for each created document at most one save or rollback is between its
\* file write and its commit.
C2_SaveRollbackExclusion ==
  \A d \in DocIds : Created(d) => Cardinality(Writing(d)) <= 1

\* --- C3 ---------------------------------------------------------------
\* C3: the step that completes a writer's rollback of a created document to a
\* commit h of the chain with success appends exactly one commit to the
\* history, leaves the earlier commits in place, and the new commit has the
\* content stored at h.
C3_RollbackNonDestructive ==
  [][\A r \in Reqs :
       LET d == req[r].doc IN
       (/\ req[r].kind = "rollback" /\ req[r].pc = "commit"
        /\ req'[r].pc = "done" /\ req'[r].result = "ok"
        /\ GoodTarget(r) /\ Created(d) /\ ByWriter(r))
       => /\ head'[d] \notin DOMAIN objects[d]
          /\ LogOf(objects'[d], head'[d]) = <<head'[d]>> \o Log(d)
          /\ objects'[d][head'[d]].content = objects[d][req[r].hash].content]_vars

\* --- C4 ---------------------------------------------------------------
\* C4: a writer's rollback of a created document to a hash that names no
\* commit never answers success, never changes the content file and never
\* adds a commit.
C4_UnknownHashNoEffect ==
  [][\A r \in Reqs :
       LET d == req[r].doc IN
       (/\ req[r].kind = "rollback" /\ req[r].hash = BadHash
        /\ Steps(r) /\ Created(d) /\ ByWriter(r))
       => /\ file'[d] = file[d]
          /\ objects'[d] = objects[d] /\ head'[d] = head[d]
          /\ req'[r].result # "ok"]_vars

\* --- C5 ---------------------------------------------------------------
\* C5: the step that resumes a save after the role lookup, for a requester
\* who is not the owner and whose grant is reader or missing, answers
\* Forbidden and changes neither the file, the index, the commits nor the
\* lock map.
C5_SaveForbidden ==
  [][\A r \in Reqs :
       LET d == req[r].doc
           u == req[r].user
       IN
       (/\ req[r].kind = "save" /\ req[r].pc = "role" /\ Steps(r)
        /\ owner[d] # u /\ perms[d][u] \in {"reader", "none"})
       => /\ req'[r].pc = "done" /\ req'[r].result = "forbidden"
          /\ req'[r].new = 0
          /\ UNCHANGED <<repo, file, index, objects, head, gitLocks>>]_vars

\* A reader's save of an existing, committed document was refused.
C5_Witness ==
  \E r \in Saves :
    /\ Done(r) /\ req[r].result = "forbidden"
    /\ Exists(req[r].doc) /\ head[req[r].doc] # 0
    /\ perms[req[r].doc][req[r].user] = "reader"

\* --- C6 ---------------------------------------------------------------
\* C6: no step of a rollback to an existing commit of a created document,
\* sent by a user who is not the owner and whose grant is reader or missing,
\* changes the content file or the commits, and such a rollback never
\* answers success.
C6_RollbackForbidden ==
  [][\A r \in Reqs :
       LET d == req[r].doc
           u == req[r].user
       IN
       (/\ req[r].kind = "rollback" /\ Steps(r) /\ Created(d)
        /\ HashExists(d, req[r].hash)
        /\ owner[d] # u /\ perms[d][u] \in {"reader", "none"})
       => /\ file'[d] = file[d]
          /\ objects'[d] = objects[d] /\ head'[d] = head[d]
          /\ req'[r].result # "ok"]_vars

C8_NoOpSave ==
  [][\A r \in Reqs :
       LET d == req[r].doc IN
       (/\ req[r].kind = "save" /\ Steps(r)
        /\ req'[r].pc = "done" /\ req'[r].result = "ok"
        /\ req[r].content = req[r].base
        /\ req[r].content = HeadContent(d)
        /\ Created(d)
        /\ \A q \in Rollbacks : GoodTarget(q) /\ ByWriter(q))
       => head'[d] = head[d] /\ objects'[d] = objects[d]]_vars

C10_CommitImmutable ==
  [][\A d \in DocIds : \A h \in DOMAIN objects[d] :
       /\ h \in DOMAIN objects'[d]
       /\ objects'[d][h].content = objects[d][h].content]_vars

\* A commit with content "Hello" is still stored after a later commit with
\* other content was made on top of it.
C10_Witness ==
  \E d \in DocIds : \E h \in DOMAIN objects[d] :
    /\ objects[d][h].content = "Hello"
    /\ head[d] > h /\ objects[d][head[d]].content = ""
    /\ \E r \in Reqs : req[r].doc = d /\ Done(r) /\ req[r].new = head[d]

\* --- C11 --------------------------------------------------------------
\* Rollback r answers success in this step.
RollbackCompletes(r) ==
  /\ req[r].kind = "rollback" /\ req[r].pc = "commit"
  /\ req'[r].pc = "done" /\ req'[r].result = "ok"

\* HEAD of d is a commit on top of commit p that reproduces the content of a
\* commit older than p: what a rollback from head p to that commit leaves.
RolledBackFrom(d, p) ==
  /\ head[d] # 0 /\ p # 0 /\ objects[d][head[d]].parent = p
  /\ \E a \in 1..(p - 1) : objects[d][a].content = objects[d][head[d]].content

C12_ForcedRollbackCommit ==
  [][\A r \in Reqs :
       LET d == req[r].doc IN
       (/\ RollbackCompletes(r) /\ GoodTarget(r) /\ AllSound /\ ByWriter(r)
        /\ objects[d][req[r].hash].content = HeadContent(d))
       => /\ head'[d] \notin DOMAIN objects[d]
          /\ LogOf(objects'[d], head'[d]) = <<head'[d]>> \o Log(d)]_vars

\* --- C13 --------------------------------------------------------------
\* C13: the step that resumes a permitted save after the role lookup while
\* the document's lock is set answers success flagged queued and changes
\* neither the file, the index, the commits nor the lock; afterwards that
\* request takes no further step: it only leaves its slot.
C13_CoalescedSaveNoOp ==
  [][\A r \in Reqs :
       LET d == req[r].doc IN
       /\ (/\ req[r].kind = "save" /\ req[r].pc = "role" /\ Steps(r)
           /\ CanWrite(GetUserDocumentRole(req[r].user, d)) /\ gitLocks[d])
          => /\ req'[r].pc = "done" /\ req'[r].result = "queued"
             /\ req'[r].new = 0
             /\ UNCHANGED <<repo, file, index, objects, head, gitLocks>>
       /\ (req[r].kind = "save" /\ req[r].overl)
          => (req'[r] = req[r] \/ req'[r] = Idle)]_vars

\* A save has been coalesced while the save it met still holds the lock.
C13_Witness ==
  \E r, q \in Saves :
    /\ r # q /\ req[r].doc = req[q].doc
    /\ Created(req[r].doc)
    /\ r \in Holders(req[r].doc) /\ gitLocks[req[r].doc] /\ req[r].shadow
    /\ Done(q) /\ req[q].overl /\ req[q].result = "queued"

\* --- C14 --------------------------------------------------------------
\* C14, for requests served one at a time.  The step in which a save of a
\* created document fails in git status, add or commit answers an error,
\* changes neither the commits, HEAD nor the content file, which still holds
\* the content the save wrote, and releases the lock.  And a save that
\* answers success with a content other than the content of HEAD, whether
\* or not an earlier save left it in the file or staged, has created a
\* commit with that content.
C14_SaveStorageFailure ==
  [][\A r \in Reqs :
       LET d == req[r].doc IN
       /\ (/\ req[r].kind = "save" /\ req[r].pc \in {"status", "add", "commit"}
           /\ Created(d) /\ Steps(r) /\ req'[r].result \notin {"ok", "none"})
          => /\ req'[r].result = "error"
             /\ objects'[d] = objects[d] /\ head'[d] = head[d]
             /\ file'[d] = req[r].content
             /\ ~gitLocks'[d]
       /\ (/\ req[r].kind = "save" /\ Steps(r) /\ Created(d)
           /\ req'[r].pc = "done" /\ req'[r].result = "ok"
           /\ req[r].content # HeadContent(d))
          => /\ head'[d] \notin DOMAIN objects[d]
             /\ objects'[d][head'[d]] = [parent |-> head[d], content |-> req[r].content]]_vars

\* A save staged its content and failed in git commit: it has answered an
\* error, the lock is free, and the file and the index hold its content,
\* which HEAD does not.
C14_Witness ==
  \E r \in Saves :
    LET d == req[r].doc IN
    /\ Done(r) /\ req[r].result = "error" /\ Created(d)
    /\ ~gitLocks[d]
    /\ file[d] = req[r].content /\ index[d] = req[r].content
    /\ HeadContent(d) # req[r].content

\* --- C15 --------------------------------------------------------------
\* The content fetch that follows a successful rollback answers in this step.
RefetchCompletes(r) ==
  /\ req[r].kind = "content" /\ req[r].pc = "role" /\ req[r].hash # BadHash
  /\ req'[r].pc = "done" /\ req'[r].result = "ok"

\* The history of d holds a commit newer than h with the content of h: the
\* commit of a rollback to h.
RollbackCommitted(d, h) ==
  \E m \in DOMAIN objects[d] : m > h /\ objects[d][m].content = objects[d][h].content

\* C15: when the owner's rollback of a created document to a commit h has
\* answered success and its commit with the content of h is in the history,
\* the content that the session then fetches and installs as the live
\* content of the document is the content of h, and the content file holds
\* the content of h at that moment.
C15_LiveReconvergence ==
  [][\A r \in Reqs :
       LET d == req[r].doc IN
       (/\ RefetchCompletes(r) /\ Created(d) /\ HashExists(d, req[r].hash)
        /\ owner[d] = req[r].user /\ RollbackCommitted(d, req[r].hash))
       => /\ req'[r].content = objects[d][req[r].hash].content
          /\ file[d] = objects[d][req[r].hash].content]_vars

\* --- C16 --------------------------------------------------------------
Creates == {r \in Reqs : req[r].kind = "create"}

\* C16: a create with a non-empty name that has answered success has left the document row, the
\* owner's grant and a history of exactly the initial commit with empty
\* content; a create that has answered an error has left no document row,
\* no repository directory and no grant of its own.
C16_AtomicCreate ==
  \A r \in Creates :
    (Done(r) /\ req[r].name # "") =>
      IF req[r].result = "ok"
      THEN /\ Created(req[r].doc)
           /\ Log(req[r].doc) = <<1>>
      ELSE \/ req[r].doc = 0
           \/ /\ owner[req[r].doc] = NoUser
              /\ repo[req[r].doc] = "absent"
              /\ perms[req[r].doc][req[r].user] = "none"

\* --- C17 --------------------------------------------------------------
\* C17: when every document in the table was created completely and under a
\* non-empty name, no create with a non-empty name is refused because of the
\* documents that exist: none is answered with the constraint error of the
\* INSERT.
C17_CreateRepeatable ==
  \A r \in Creates :
    (/\ Done(r) /\ req[r].name # ""
     /\ AllSound)
    => req[r].result # "constraint"

\* --- C18 --------------------------------------------------------------
\* C18: no step of a create with an empty name adds a document row, a
\* repository directory or a grant, and such a create never answers success.
C18_EmptyNameRejected ==
  [][\A r \in Reqs :
       (req[r].kind = "create" /\ req[r].name = "" /\ Steps(r))
       => /\ UNCHANGED <<nextId, owner, docName, perms, repo>>
          /\ req'[r].result # "ok"]_vars

\* --- C19 --------------------------------------------------------------
\* The id d was given to a document and its row is gone: a delete of d has
\* answered success.
Deleted(d) == d < nextId /\ owner[d] = NoUser

\* C19: once a delete of d has succeeded, in every later state the row, the
\* directory, the content file, the index and all commits of d are gone,
\* whatever the saves and rollbacks that were in flight during the delete do.
C19_DeletedStaysGone ==
  \A d \in DocIds :
    Deleted(d) => /\ repo[d] = "absent" /\ file[d] = NoFile /\ index[d] = NoFile
                  /\ objects[d] = <<>> /\ head[d] = 0

\* C19, all parts: C19_DeletedStaysGone holds in every state, a succeeded
\* delete is never undone, and a content or history request whose document
\* lookup runs after the delete answers NotFound (or 500 when the lookup
\* itself fails), never a content or a history.
C19_DeleteFinal ==
  /\ []C19_DeletedStaysGone
  /\ [][\A d \in DocIds : Deleted(d) => Deleted(d)']_vars
  /\ [][\A r \in Reqs :
          (/\ req[r].kind \in {"content", "history"} /\ req[r].pc = "query"
           /\ Steps(r) /\ Deleted(req[r].doc))
          => /\ req'[r].pc = "done"
             /\ req'[r].result \in {"notfound", "error"}]_vars

\* A delete of a completely created document has answered success while a
\* save that had written the file and found it modified was still in
\* flight; the directory is gone.
C19_Witness ==
  \E r \in Saves, q \in Reqs :
    /\ req[r].pc \in {"add", "commit"}
    /\ req[q].kind = "delete" /\ Done(q) /\ req[q].result = "ok"
    /\ req[q].doc = req[r].doc /\ Deleted(req[r].doc)
    /\ perms[req[r].doc]["U1"] = "owner"
    /\ repo[req[r].doc] = "absent"

\* --- C20 --------------------------------------------------------------
\* C20: no step of a delete sent by a user other than the owner of a created,
\* named document removes its row, its directory, its file or its commits, and
\* such a delete never answers success.
C20_DeleteOwnerOnly ==
  [][\A r \in Reqs :
       LET d == req[r].doc IN
       (/\ req[r].kind = "delete" /\ Steps(r) /\ Created(d) /\ docName[d] # ""
        /\ owner[d] # req[r].user)
       => /\ UNCHANGED <<owner, repo, file, index, objects, head>>
          /\ req'[r].result # "ok"]_vars

\* --- C21 --------------------------------------------------------------
Reads == {r \in Reqs : req[r].kind = "content"}

\* The create of document d ran to its last step, the owner's grant (the
\* row outlives the document: nothing deletes it).
Completed(d) == \E u \in Users : perms[d][u] = "owner"

\* C21: a content request on a document whose create completed changes no
\* state; it is not answered with content when the document does not exist;
\* and when it is answered with content, the document exists and the answer
\* carries the content of the file ('' without a file) and the requester's
\* role (owner for the owner, else the grant, else none).
C21_ContentRead ==
  [][\A r \in Reads :
       Steps(r) /\ Completed(req[r].doc) =>
         /\ UNCHANGED <<db, disk, gitLocks>>
         /\ req[r].pc = "query" /\ ~Exists(req[r].doc) =>
              req'[r].result \in {"notfound", "error"}
         /\ req'[r].result = "ok" =>
              /\ Exists(req[r].doc)
              /\ req'[r].content =
                   IF file[req[r].doc] # NoFile THEN file[req[r].doc] ELSE ""
              /\ req'[r].role = IF owner[req[r].doc] = req[r].user THEN "owner"
                                ELSE perms[req[r].doc][req[r].user]]_vars

\* --- C22 --------------------------------------------------------------
Shares == {r \in Reqs : req[r].kind = "share"}

\* C22: when the statement of a share request runs for a user who already
\* holds a grant on a soundly created document, the request succeeds and
\* the grant carries the role asked for (the table holds one role per
\* document and user).
C22_ShareReplaces ==
  [][\A r \in Shares :
       /\ Steps(r) /\ req[r].pc = "upsert" /\ req'[r].result # "error"
       /\ Created(req[r].doc) /\ docName[req[r].doc] # ""
       /\ perms[req[r].doc][req[r].user] # "none"
       => /\ req'[r].result = "ok"
          /\ perms'[req[r].doc][req[r].user] = req[r].role]_vars

\* --- C30 --------------------------------------------------------------
\* C30: db.query gives every placeholder $n of a statement the n-th element
\* of params, also when a number is repeated: whenever a share request is
\* about to run its statement, each placeholder of the statement receives
\* the element of [id, targetUserId, role] that its number names.
C30_NumberedBinding ==
  \A r \in Shares :
    req[r].pc = "upsert" =>
      LET params == <<req[r].doc, req[r].user, req[r].role>>
          b == QueryBind(UpsertSql, params)
      IN  \A k \in 1..Len(UpsertSql) : b[k] = params[UpsertSql[k]]

\* --- C23 --------------------------------------------------------------
\* C23: the owner of a document is treated as owner whatever the grant
\* table says about them: unless the role lookup itself fails, a content
\* request of the owner is answered with role owner, and a save of the owner
\* is never answered as forbidden.
C23_OwnerIsOwner ==
  [][\A r \in Reqs :
       /\ Steps(r) /\ req[r].pc = "role" /\ owner[req[r].doc] = req[r].user
       /\ ~req'[r].caught
       =>
         /\ req[r].kind = "content" /\ req'[r].result = "ok" =>
              req'[r].role = "owner"
         /\ req[r].kind = "save" => req'[r].result # "forbidden"]_vars

\* The owner, whose grant row a share request wrote as reader after the
\* create had failed to write it, has been answered with role owner.
C23_Witness ==
  \E r \in Reads :
    /\ Done(r) /\ req[r].result = "ok" /\ req[r].role = "owner"
    /\ owner[req[r].doc] = req[r].user
    /\ perms[req[r].doc][req[r].user] = "reader"

C25_Isolation ==
  [][\A r \in Saves \cup Rollbacks :
       Steps(r) =>
         /\ \A e \in DocIds \ {req[r].doc} :
              /\ repo'[e] = repo[e] /\ file'[e] = file[e] /\ index'[e] = index[e]
              /\ objects'[e] = objects[e] /\ head'[e] = head[e]
              /\ gitLocks'[e] = gitLocks[e]
         /\ req[r].kind = "save" /\ req'[r].result = "queued" =>
              gitLocks[req[r].doc]]_vars

\* A save took the lock of a created document and wrote its file while a
\* save on another document held that document's lock.
C25_Witness ==
  \E r, q \in Saves :
    /\ req[r].doc # req[q].doc
    /\ r \in Holders(req[r].doc) /\ q \in Holders(req[q].doc)
    /\ gitLocks[req[r].doc] /\ gitLocks[req[q].doc]
    /\ Created(req[r].doc) /\ file[req[r].doc] = "Hello"

\* --- C26 --------------------------------------------------------------
\* C26: after a failed autosave the client tries again by itself: in every
\* state where the last autosave request has failed, a timer is armed that
\* will send the next one without a further edit.
C26_AutosaveRetry == autosave = "failed" => timeout > 0

\* --- C27 --------------------------------------------------------------
\* C27: while the user keeps editing, a save request is sent at least once
\* per wait: no edit is older than the wait without a save request having
\* been sent since it was made.
C27_PeriodicAutosave == dirty => age <= WaitTicks

\* --- C28 --------------------------------------------------------------
\* C28: a session that shows the dashboard or the login screen, and is not
\* in the middle of opening a document, has no connected provider and no
\* live editor.
C28_ReplicaTeardown ==
  screen \in {"dashboard", "auth"} /\ opening = "no" =>
    provider # "connected" /\ editor # "live"

\* --- C31 --------------------------------------------------------------
\* C31: whatever saves run in between, a rollback of a created document to
\* a commit h of its repository that answers success has made a commit, and
\* the content of that commit is the content stored at h.
C31_RollbackContent ==
  [][\A r \in Rollbacks :
       LET d == req[r].doc IN
       RollbackCompletes(r) /\ GoodTarget(r) /\ Created(d) /\ docName[d] # "" =>
         /\ req'[r].new # 0
         /\ req'[r].new # 0 =>
              objects'[d][req'[r].new].content = objects[d][req[r].hash].content]_vars

\* --- C32 --------------------------------------------------------------
\* The saves and rollbacks of document d that have not answered yet.
Pending(d) ==
  {r \in Saves \cup Rollbacks : req[r].doc = d /\ req[r].pc # "done"}

\* C32: in every state where nothing has failed and no save or rollback of a
\* created document is in progress, document.md is the content of the HEAD
\* commit, also after requests that overlapped.
C32_DiskHeadAgree ==
  \A d \in DocIds :
    Created(d) /\ Pending(d) = {} => file[d] = HeadContent(d)

\* A rollback that overlapped a save has answered success with a commit that
\* carries the save's content, nothing is in progress, and the file is the
\* content of HEAD.
C32_Witness ==
  \E r \in Rollbacks :
    LET d == req[r].doc IN
    /\ Done(r) /\ req[r].result = "ok" /\ Created(d) /\ Pending(d) = {}
    /\ HashExists(d, req[r].hash) /\ req[r].new # 0
    /\ objects[d][req[r].new].content # objects[d][req[r].hash].content
    /\ file[d] = HeadContent(d)

\* --- C33 --------------------------------------------------------------
\* C33: in every state at most one save of a document is past the lock test
\* and before its release, and while one is there the lock is set, although
\* saves wait in the permission lookup before the test.
C33_AtomicLock ==
  \A d \in DocIds :
    /\ Cardinality(Holders(d)) <= 1
    /\ Holders(d) # {} => gitLocks[d]

\* A permitted save holds the lock of a created document while a second
\* permitted save of the document waits in its permission lookup.
C33_Witness ==
  \E r, q \in Saves :
    /\ req[r].doc = req[q].doc /\ Created(req[r].doc)
    /\ r \in Holders(req[r].doc)
    /\ req[q].pc = "role"
    /\ CanWrite(GetUserDocumentRole(req[q].user, req[q].doc))

\* C35: a save whose role lookup fails is answered as forbidden in that very
\* step, whoever sent it, the owner included: the lock map, the file, the
\* repository and the tables are left as they were, and the request is over.
C35_FailClosed ==
  [][\A r \in Saves :
       Steps(r) /\ req[r].pc = "role" /\ req'[r].caught =>
         /\ req'[r].pc = "done" /\ req'[r].result = "forbidden"
         /\ UNCHANGED <<gitLocks, disk, db>>]_vars

\* The owner's save of an existing, unlocked document was turned away because
\* the lookup failed.
C35_Witness ==
  \E r \in Saves :
    /\ Done(r) /\ req[r].caught /\ req[r].result = "forbidden"
    /\ Created(req[r].doc) /\ owner[req[r].doc] = req[r].user
    /\ ~gitLocks[req[r].doc]

\* --- C36 --------------------------------------------------------------
\* The rollback of the earlier revision: git reset --hard <hash> moves HEAD to
\* the commit and makes the index and the content file equal to its tree.
HardReset(d, h) ==
  [head  |-> h,
   index |-> objects[d][h].content,
   file  |-> objects[d][h].content]

\* C36: when requests are served one at a time and a rollback to an existing
\* commit h answers success, the content file is what the hard reset to h
\* would have left, the history the hard reset would have left is the part of
\* the old history from h back, and the history the rollback leaves is the
\* old history with one more commit on top.
C36_RollbacksAgree ==
  [][\A r \in Rollbacks :
       LET d  == req[r].doc
           hr == HardReset(d, req[r].hash)
       IN
       RollbackCompletes(r) /\ GoodTarget(r) /\ AllSound /\ ByWriter(r) =>
         /\ file'[d] = hr.file
         /\ IsSuffix(LogOf(objects[d], hr.head), Log(d))
         /\ head'[d] \notin DOMAIN objects[d]
         /\ LogOf(objects'[d], head'[d]) = <<head'[d]>> \o Log(d)]_vars

\* --- C37 --------------------------------------------------------------
\* C37: the wrapped function is invoked only by the tick that completes the
\* wait after the last call, with the arguments of that call, once for all
\* the calls since the invocation before, and no timer stays armed behind
\* it; and while calls wait for their invocation a timer is armed that runs
\* out the wait after the last of them.
C37_Debounce ==
  [][/\ invoked' # invoked =>
          /\ called # <<>> /\ since = WaitTicks - 1
          /\ invoked' = Append(invoked, [args  |-> called[Len(called)],
                                         burst |-> Len(called)])
          /\ called' = <<>> /\ timeout' = 0
     /\ called' # <<>> => timeout' > 0 /\ timeout' = WaitTicks - since']_vars

\* A burst of several calls that ended with arguments other than those it
\* began with was followed by its invocation.
C37_Witness ==
  \E i \in DOMAIN invoked :
    invoked[i].burst = MaxCalls /\ invoked[i].args = "b" /\ called = <<>>

====
